---- MODULE Spec2Model ----
(***************************************************************************)
(* The document compiler of notes: mdtodoc (src/src/main.rs, 373-630).     *)
(*                                                                         *)
(* mdtodoc runs one filter_map closure over the markdown event stream,     *)
(* serialises the events the closure forwards, appends the footnote list   *)
(* and resolves the metadata.  The model consumes the stream one event at  *)
(* a time: one action per arm of the closure's match, and one action for   *)
(* the code that runs after the stream has ended.                          *)
(*                                                                         *)
(* A string is modelled as the sequence of its pieces: a text is a         *)
(* sequence of lines, the rendered output is a sequence of HTML tokens.    *)
(***************************************************************************)
EXTENDS Integers, Sequences, FiniteSets, TLC

(***************************************************************************)
(* Bounds of the model.                                                    *)
(***************************************************************************)
\* events of one document
MaxEvents == 8
\* footnote-reference events of one document
MaxRefs == 3
\* footnote definitions of one document
MaxDefs == 2
\* code blocks of one document
MaxBlocks == 2
\* text events of one code block
MaxSplit == 2

\* footnote names
Names == {"a", "b"}

(***************************************************************************)
(* Values.                                                                 *)
(***************************************************************************)
\* Option<T>: None is the empty sequence, Some(x) is <<x>>.
None == <<>>

Some(x) == <<x>>

\* A line of text: a key and a value; the key "#" marks a line that is no
\* TOML key/value pair.
Line(key, val) == <<key, val>>

\* A markdown event (pulldown_cmark::Event), and an HTML token of the output.
Ev(k, name, text, n, nr) == [k |-> k, name |-> name, text |-> text, n |-> n, nr |-> nr]

StartFootnoteDefinition(name) == Ev("StartFootnoteDefinition", name, <<>>, 0, 0)

EndFootnoteDefinition == Ev("EndFootnoteDefinition", "", <<>>, 0, 0)

FootnoteReference(name) == Ev("FootnoteReference", name, <<>>, 0, 0)

StartFenced(lang) == Ev("StartCodeBlockFenced", lang, <<>>, 0, 0)

StartIndented == Ev("StartCodeBlockIndented", "", <<>>, 0, 0)

EndCodeBlock == Ev("EndCodeBlock", "", <<>>, 0, 0)

Text(text) == Ev("Text", "", text, 0, 0)

StartParagraph == Ev("StartParagraph", "", <<>>, 0, 0)

EndParagraph == Ev("EndParagraph", "", <<>>, 0, 0)

(***************************************************************************)
(* struct Meta and its deserialisation from TOML.                          *)
(***************************************************************************)
Meta(title, date, lang, desc) == [title |-> title, date |-> date, lang |-> lang, desc |-> desc]

\* the values of the lines of `text` whose key is `key`, in order
ValuesOf(text, key) ==
    LET hit(l) == l[1] = key
        hits == SelectSeq(text, hit)
    IN  [i \in 1..Len(hits) |-> hits[i][2]]

OptionOf(vals) == IF vals = <<>> THEN None ELSE Some(vals[1])

\* toml::de::from_str::<Meta>(&text): Err (None here) on a line that is no
\* key/value pair, on a key given twice and on a missing `title` or `date`;
\* `lang` and `desc` are Options and default to None; Meta does not deny
\* unknown fields, so any other key is skipped.
FromStr(text) ==
    LET keys == {text[i][1] : i \in 1..Len(text)}
    IN  IF \E i \in 1..Len(text) : text[i][1] = "#"
        THEN None
        ELSE IF \E i, j \in 1..Len(text) : i # j /\ text[i][1] = text[j][1]
        THEN None
        ELSE IF ~({"title", "date"} \subseteq keys)
        THEN None
        ELSE Some(Meta(ValuesOf(text, "title")[1], ValuesOf(text, "date")[1],
                       OptionOf(ValuesOf(text, "lang")), OptionOf(ValuesOf(text, "desc"))))

\* Meta::inferred(title, created)
Inferred(title, created) == Meta(title, created, None, None)

(***************************************************************************)
(* The state.                                                              *)
(*   md, ctx        the events Parser::new_ext has produced so far and the *)
(*                  containers it has open (the input side of the stream)  *)
(*   infered_meta   the caller's metadata                                  *)
(*   state .. footnote_numbers   the locals of mdtodoc the closure mutates *)
(*   output         the HTML written so far                                *)
(*   pc             "run" while the stream is consumed, "done" at the      *)
(*                  return, "panic" when an unwrap has failed              *)
(*   ret            the value returned, None before the return             *)
(***************************************************************************)
VARIABLES md, ctx, infered_meta, state, code, meta, syntax, footnotes,
          in_footnote, footnote_numbers, output, pc, ret

vars == <<md, ctx, infered_meta, state, code, meta, syntax, footnotes,
          in_footnote, footnote_numbers, output, pc, ret>>

\* The server around mdtodoc: the main thread with its reload loop, the
\* thread of SrvState::serve, the mutex they share, and their environment
\* (the signal, the configuration file, the content directories, the
\* clients).  The server has its own specification, SrvSpec; under Spec its
\* variables rest at ServerAtRest.
VARIABLES reload_state, config, srv_state, lock_owner, poisoned, main_pc, serve_pc,
          request, found_entry, response, log, config_file, disk

srv_vars == <<reload_state, config, srv_state, lock_owner, poisoned, main_pc, serve_pc,
              request, found_entry, response, log, config_file, disk>>

\* #[derive(Default)] struct SrvState
SrvStateDefault == [content_path |-> "", index |-> <<>>, index_html |-> <<>>]

ServerAtRest ==
    /\ reload_state = FALSE
    /\ config = ""
    /\ srv_state = SrvStateDefault
    /\ lock_owner = "none"
    /\ poisoned = FALSE
    /\ main_pc = "rest"
    /\ serve_pc = "rest"
    /\ request = None
    /\ found_entry = None
    /\ response = None
    /\ log = None
    /\ config_file = ""
    /\ disk = <<>>

(***************************************************************************)
(* The event stream: what the markdown parser can produce next.  Start and *)
(* end events are balanced; text and footnote references are inline, code  *)
(* blocks hold text only, footnote definitions hold blocks (other          *)
(* definitions among them).                                                *)
(***************************************************************************)
Langs == {"meta", "rust"}

TitleLine == <<Line("title", "A")>>

DateLine == <<Line("date", "d1")>>

FullRecord == <<Line("title", "B"), Line("date", "d2"), Line("lang", "fr"), Line("author", "x")>>

Junk == <<Line("#", "?")>>

Prose == <<Line("#", "x")>>

CodeLine == <<Line("#", "y")>>

\* the text events of a block tagged meta; no other text of a document
\* equals one of them
CodeTexts == {TitleLine, DateLine, FullRecord, Junk}

InferredMetas == {Inferred("X", "d0")}

Top(stack) == IF stack = <<>> THEN "Document" ELSE stack[Len(stack)]

Pop(stack) == SubSeq(stack, 1, Len(stack) - 1)

CountKind(evs, kinds) == Cardinality({i \in 1..Len(evs) : evs[i].k \in kinds})

\* the text events since the last start event
RECURSIVE TrailingTexts(_)
TrailingTexts(evs) ==
    IF evs = <<>> \/ evs[Len(evs)].k # "Text" THEN 0
    ELSE 1 + TrailingTexts(Pop(evs))

\* the start event of the code block that is open
RECURSIVE OpenBlock(_)
OpenBlock(evs) ==
    IF evs[Len(evs)].k \in {"StartCodeBlockFenced", "StartCodeBlockIndented"} THEN evs[Len(evs)]
    ELSE OpenBlock(Pop(evs))

\* the text events a code block can hold
TextsOf(start) ==
    IF start.k = "StartCodeBlockFenced" /\ start.name = "meta" THEN CodeTexts
    ELSE IF start.k = "StartCodeBlockFenced" THEN {Prose, CodeLine}
    ELSE {Prose}

Offered ==
    IF Len(md) >= MaxEvents THEN {}
    ELSE IF Top(ctx) = "Paragraph" THEN
        (IF md[Len(md)].k # "Text" THEN {Text(Prose)} ELSE {})
        \cup {FootnoteReference(name) : name \in
                 IF CountKind(md, {"FootnoteReference"}) < MaxRefs THEN Names ELSE {}}
        \cup (IF md[Len(md)].k # "StartParagraph" THEN {EndParagraph} ELSE {})
    ELSE IF Top(ctx) = "CodeBlock" THEN
        {Text(t) : t \in IF TrailingTexts(md) < MaxSplit THEN TextsOf(OpenBlock(md)) ELSE {}}
        \cup {EndCodeBlock}
    ELSE
        {StartParagraph}
        \cup {StartFootnoteDefinition(name) : name \in
                 IF CountKind(md, {"StartFootnoteDefinition"}) < MaxDefs
                 THEN Names ELSE {}}
        \cup (IF CountKind(md, {"StartCodeBlockFenced", "StartCodeBlockIndented"}) < MaxBlocks
              THEN {StartFenced(lang) : lang \in Langs} \cup {StartIndented}
              ELSE {})
        \cup (IF Top(ctx) = "FootnoteDefinition" THEN {EndFootnoteDefinition} ELSE {})

Advance(stack, ev) ==
    IF ev.k = "StartParagraph" THEN Append(stack, "Paragraph")
    ELSE IF ev.k = "StartFootnoteDefinition" THEN Append(stack, "FootnoteDefinition")
    ELSE IF ev.k \in {"StartCodeBlockFenced", "StartCodeBlockIndented"} THEN Append(stack, "CodeBlock")
    ELSE IF ev.k \in {"EndParagraph", "EndFootnoteDefinition", "EndCodeBlock"} THEN Pop(stack)
    ELSE stack

\* the parser hands `ev` to the closure
Feed(ev) ==
    /\ pc = "run"
    /\ ev \in Offered
    /\ md' = Append(md, ev)
    /\ ctx' = Advance(ctx, ev)
    /\ UNCHANGED srv_vars

Init ==
    /\ md = <<>>
    /\ ctx = <<>>
    /\ infered_meta \in InferredMetas
    /\ state = "Normal"
    /\ code = <<>>
    /\ meta = None
    /\ syntax = "Plain Text"
    /\ footnotes = <<>>
    /\ in_footnote = <<>>
    /\ footnote_numbers = <<>>
    /\ output = <<>>
    /\ pc = "run"
    /\ ret = None
    /\ ServerAtRest

(***************************************************************************)
(* The closure of filter_map: one action per arm of its match, in the      *)
(* order of the arms.  An event the closure returns as Some is written by  *)
(* html::write_html_fmt as the stream is pulled.                           *)
(***************************************************************************)
HtmlReference(name, n, nr) == Ev("HtmlReference", name, <<>>, n, nr)

HtmlHighlighted(syn, src) == Ev("HtmlHighlighted", syn, src, 0, 0)

HtmlUnhighlighted(src) == Ev("HtmlUnhighlighted", "", src, 0, 0)

\* highlighted_html_for_string(&code, .., syntax, ..).unwrap_or(code.clone()):
\* the highlighted code, or the code as it is when the highlighter fails
HighlightedHtml(src, syn) == {HtmlHighlighted(syn, src), HtmlUnhighlighted(src)}

\* in_footnote.last_mut().unwrap().push(event)
PushLast(stack, ev) == [stack EXCEPT ![Len(stack)] = Append(@, ev)]

\* SYNTAX_SET.find_syntax_by_token(lang).unwrap_or_else(find_syntax_plain_text)
KnownSyntaxes == {"rust"}

FindSyntax(lang) == IF lang \in KnownSyntaxes THEN lang ELSE "Plain Text"

\* the arm's guard `lang == "meta"` (lang.trim() leaves the tags of Langs as
\* they are: none has white space around it)
IsMetaTag(lang) == lang = "meta"

\* CountReference counting the first reference of a name only
CountReferenceOnce(numbers, name) ==
    LET n == Cardinality(DOMAIN numbers) + 1
    IN  IF name \in DOMAIN numbers THEN numbers ELSE (name :> <<n, 1>>) @@ numbers

\* CountReference with the numbers starting at 0
CountReferenceFromZero(numbers, name) ==
    LET n == Cardinality(DOMAIN numbers)
        entry == IF name \in DOMAIN numbers THEN numbers[name] ELSE <<n, 0>>
    IN  (name :> <<entry[1], entry[2] + 1>>) @@ numbers

\* footnote_numbers.entry(name).or_insert((n, 0)), then *nr += 1
CountReference(numbers, name) ==
    LET n == Cardinality(DOMAIN numbers) + 1
        entry == IF name \in DOMAIN numbers THEN numbers[name] ELSE <<n, 0>>
    IN  (name :> <<entry[1], entry[2] + 1>>) @@ numbers

\* the Ok and the Err arm of the parse of one text event in Meta state
ParsedMeta(old, text) == IF FromStr(text) # None THEN Some(FromStr(text)[1]) ELSE old

OnFootnoteDefinitionStart ==
    \E ev \in Offered :
        /\ ev.k = "StartFootnoteDefinition"
        /\ Feed(ev)
        /\ in_footnote' = Append(in_footnote, <<ev>>)
        /\ UNCHANGED <<infered_meta, state, code, meta, syntax, footnotes,
                       footnote_numbers, output, pc, ret>>

OnFootnoteDefinitionEnd ==
    \E ev \in Offered :
        /\ ev.k = "EndFootnoteDefinition"
        /\ Feed(ev)
        /\ IF in_footnote = <<>>
           THEN /\ pc' = "panic"
                /\ UNCHANGED <<in_footnote, footnotes>>
           ELSE /\ in_footnote' = Pop(in_footnote)
                /\ footnotes' = Append(footnotes, Append(Top(in_footnote), ev))
                /\ pc' = pc
        /\ UNCHANGED <<infered_meta, state, code, meta, syntax, footnote_numbers,
                       output, ret>>

\* OnFootnoteReference emitting the link wherever the reference stands
OnFootnoteReferenceEmitted ==
    \E ev \in Offered :
        /\ ev.k = "FootnoteReference"
        /\ Feed(ev)
        /\ footnote_numbers' = CountReference(footnote_numbers, ev.name)
        /\ output' = Append(output, HtmlReference(ev.name, footnote_numbers'[ev.name][1],
                                                  footnote_numbers'[ev.name][2]))
        /\ UNCHANGED <<infered_meta, state, code, meta, syntax, footnotes, in_footnote,
                       pc, ret>>

OnFootnoteReference ==
    \E ev \in Offered :
        /\ ev.k = "FootnoteReference"
        /\ Feed(ev)
        /\ footnote_numbers' = CountReference(footnote_numbers, ev.name)
        /\ LET html == HtmlReference(ev.name, footnote_numbers'[ev.name][1],
                                     footnote_numbers'[ev.name][2])
           IN  IF in_footnote = <<>>
               THEN output' = Append(output, html) /\ in_footnote' = in_footnote
               ELSE in_footnote' = PushLast(in_footnote, html) /\ output' = output
        /\ UNCHANGED <<infered_meta, state, code, meta, syntax, footnotes, pc, ret>>

\* OnEventInFootnote forwarding the event as well
OnEventInFootnoteLeaking ==
    \E ev \in Offered :
        /\ ev.k \notin {"StartFootnoteDefinition", "EndFootnoteDefinition", "FootnoteReference"}
        /\ in_footnote # <<>>
        /\ Feed(ev)
        /\ in_footnote' = PushLast(in_footnote, ev)
        /\ output' = Append(output, ev)
        /\ UNCHANGED <<infered_meta, state, code, meta, syntax, footnotes,
                       footnote_numbers, pc, ret>>

OnEventInFootnote ==
    \E ev \in Offered :
        /\ ev.k \notin {"StartFootnoteDefinition", "EndFootnoteDefinition", "FootnoteReference"}
        /\ in_footnote # <<>>
        /\ Feed(ev)
        /\ in_footnote' = PushLast(in_footnote, ev)
        /\ UNCHANGED <<infered_meta, state, code, meta, syntax, footnotes,
                       footnote_numbers, output, pc, ret>>

\* OnFencedCodeBlockStart placed before the arm that buffers footnote content
OnFencedCodeBlockStartAnywhere ==
    \E ev \in Offered :
        /\ ev.k = "StartCodeBlockFenced"
        /\ Feed(ev)
        /\ IF IsMetaTag(ev.name)
           THEN state' = "Meta" /\ syntax' = syntax
           ELSE state' = "Highlight" /\ syntax' = FindSyntax(ev.name)
        /\ UNCHANGED <<infered_meta, code, meta, footnotes, in_footnote,
                       footnote_numbers, output, pc, ret>>

OnFencedCodeBlockStart ==
    \E ev \in Offered :
        /\ ev.k = "StartCodeBlockFenced"
        /\ in_footnote = <<>>
        /\ Feed(ev)
        /\ IF IsMetaTag(ev.name)
           THEN state' = "Meta" /\ syntax' = syntax
           ELSE state' = "Highlight" /\ syntax' = FindSyntax(ev.name)
        /\ UNCHANGED <<infered_meta, code, meta, footnotes, in_footnote,
                       footnote_numbers, output, pc, ret>>

OnText ==
    \E ev \in Offered :
        /\ ev.k = "Text"
        /\ in_footnote = <<>>
        /\ Feed(ev)
        /\ IF state = "Normal"
           THEN output' = Append(output, ev) /\ UNCHANGED <<meta, code>>
           ELSE IF state = "Meta"
           THEN meta' = ParsedMeta(meta, ev.text) /\ UNCHANGED <<output, code>>
           ELSE code' = code \o ev.text /\ UNCHANGED <<output, meta>>
        /\ UNCHANGED <<infered_meta, state, syntax, footnotes, in_footnote,
                       footnote_numbers, pc, ret>>

\* OnCodeBlockEnd without code.clear()
OnCodeBlockEndKeepingCode ==
    \E ev \in Offered :
        /\ ev.k = "EndCodeBlock"
        /\ in_footnote = <<>>
        /\ Feed(ev)
        /\ IF state = "Normal"
           THEN output' = Append(output, ev) /\ UNCHANGED <<state, code>>
           ELSE IF state = "Meta"
           THEN state' = "Normal" /\ UNCHANGED <<output, code>>
           ELSE /\ \E html \in HighlightedHtml(code, syntax) : output' = Append(output, html)
                /\ code' = code
                /\ state' = "Normal"
        /\ UNCHANGED <<infered_meta, meta, syntax, footnotes, in_footnote,
                       footnote_numbers, pc, ret>>

\* OnCodeBlockEnd leaving the Meta state as it is
OnCodeBlockEndKeepingState ==
    \E ev \in Offered :
        /\ ev.k = "EndCodeBlock"
        /\ in_footnote = <<>>
        /\ Feed(ev)
        /\ IF state = "Normal"
           THEN output' = Append(output, ev) /\ UNCHANGED <<state, code>>
           ELSE IF state = "Meta"
           THEN UNCHANGED <<state, output, code>>
           ELSE /\ \E html \in HighlightedHtml(code, syntax) : output' = Append(output, html)
                /\ code' = <<>>
                /\ state' = "Normal"
        /\ UNCHANGED <<infered_meta, meta, syntax, footnotes, in_footnote,
                       footnote_numbers, pc, ret>>

OnCodeBlockEnd ==
    \E ev \in Offered :
        /\ ev.k = "EndCodeBlock"
        /\ in_footnote = <<>>
        /\ Feed(ev)
        /\ IF state = "Normal"
           THEN output' = Append(output, ev) /\ UNCHANGED <<state, code>>
           ELSE IF state = "Meta"
           THEN state' = "Normal" /\ UNCHANGED <<output, code>>
           ELSE /\ \E html \in HighlightedHtml(code, syntax) : output' = Append(output, html)
                /\ code' = <<>>
                /\ state' = "Normal"
        /\ UNCHANGED <<infered_meta, meta, syntax, footnotes, in_footnote,
                       footnote_numbers, pc, ret>>

\* OnOtherEvent writing the event in front of the output
OnOtherEventPrepending ==
    \E ev \in Offered :
        /\ ev.k \notin {"StartFootnoteDefinition", "EndFootnoteDefinition", "FootnoteReference",
                        "StartCodeBlockFenced", "Text", "EndCodeBlock"}
        /\ in_footnote = <<>>
        /\ Feed(ev)
        /\ output' = <<ev>> \o output
        /\ UNCHANGED <<infered_meta, state, code, meta, syntax, footnotes, in_footnote,
                       footnote_numbers, pc, ret>>

OnOtherEvent ==
    \E ev \in Offered :
        /\ ev.k \notin {"StartFootnoteDefinition", "EndFootnoteDefinition", "FootnoteReference",
                        "StartCodeBlockFenced", "Text", "EndCodeBlock"}
        /\ in_footnote = <<>>
        /\ Feed(ev)
        /\ output' = Append(output, ev)
        /\ UNCHANGED <<infered_meta, state, code, meta, syntax, footnotes, in_footnote,
                       footnote_numbers, pc, ret>>

(***************************************************************************)
(* After the stream: the footnote list, the metadata and the template.     *)
(***************************************************************************)
HtmlListOpen == Ev("HtmlListOpen", "", <<>>, 0, 0)

HtmlListClose == Ev("HtmlListClose", "", <<>>, 0, 0)

HtmlLi(name) == Ev("HtmlLi", name, <<>>, 0, 0)

HtmlLiEnd == Ev("HtmlLiEnd", "", <<>>, 0, 0)

HtmlParagraphEnd == Ev("HtmlParagraphEnd", "", <<>>, 0, 0)

\* <a href="#fr-{name}-{usage}">↩{label}</a>; label 0 is the bare arrow
HtmlBackref(name, usage, label) == Ev("HtmlBackref", name, <<>>, label, usage)

\* a failed unwrap or unreachable!() inside the rendering of the list
Panicked == Ev("Panicked", "", <<>>, 0, 0)

\* footnote_numbers.get(name).unwrap_or(&(0, 0))
GetOrZero(numbers, name) == IF name \in DOMAIN numbers THEN numbers[name] ELSE <<0, 0>>

\* Retained keeping every definition
RetainedAll(numbers, f) == TRUE

\* Retained dropping the definitions referenced once
RetainedTwice(numbers, f) ==
    IF f # <<>> /\ f[1].k = "StartFootnoteDefinition"
    THEN GetOrZero(numbers, f[1].name)[2] > 1
    ELSE FALSE

\* the predicate of footnotes.retain
Retained(numbers, f) ==
    IF f # <<>> /\ f[1].k = "StartFootnoteDefinition"
    THEN GetOrZero(numbers, f[1].name)[2] # 0
    ELSE FALSE

\* the key of footnotes.sort_by_cached_key
SortKey(numbers, f) == GetOrZero(numbers, f[1].name)[1]

\* sort_by_cached_key is a stable sort
RECURSIVE InsertByKey(_, _, _)
InsertByKey(numbers, sorted, f) ==
    IF sorted = <<>> THEN <<f>>
    ELSE IF SortKey(numbers, sorted[Len(sorted)]) <= SortKey(numbers, f)
    THEN Append(sorted, f)
    ELSE Append(InsertByKey(numbers, Pop(sorted), f), sorted[Len(sorted)])

\* SortByCachedKey leaving the definitions in source order
SortUnsorted(numbers, fs) == fs

RECURSIVE SortByCachedKey(_, _)
SortByCachedKey(numbers, fs) ==
    IF fs = <<>> THEN <<>>
    ELSE InsertByKey(numbers, SortByCachedKey(numbers, Pop(fs)), fs[Len(fs)])

\* the label of the backlink of one usage
BackrefLabel(usage) == IF usage = 1 THEN 0 ELSE usage

\* Backrefs with the exclusive range 1..usage_count
BackrefsShort(name, usage_count) ==
    [usage \in 1..(usage_count - 1) |-> HtmlBackref(name, usage, BackrefLabel(usage))]

\* the loop `for usage in 1..=usage_count`
Backrefs(name, usage_count) ==
    [usage \in 1..usage_count |-> HtmlBackref(name, usage, BackrefLabel(usage))]

\* BackrefsHere true at the last event of the definition only
BackrefsAtEndOnly(has_written_backrefs, i, fl_len) == ~has_written_backrefs /\ i >= fl_len - 1

\* the guard `!has_written_backrefs && i >= fl_len - 2`, i counted from 0
BackrefsHere(has_written_backrefs, i, fl_len) == ~has_written_backrefs /\ i >= fl_len - 2

\* the closure mapped over one footnote, from its event i (counted from 1)
RECURSIVE RenderFootnote(_, _, _, _, _)
RenderFootnote(numbers, fl, i, name, has_written_backrefs) ==
    IF i > Len(fl) THEN <<>>
    ELSE LET f == fl[i] IN
        IF f.k = "StartFootnoteDefinition"
        THEN <<HtmlLi(f.name)>> \o RenderFootnote(numbers, fl, i + 1, f.name, FALSE)
        ELSE IF /\ f.k \in {"EndFootnoteDefinition", "EndParagraph"}
                /\ BackrefsHere(has_written_backrefs, i - 1, Len(fl))
        THEN IF name \notin DOMAIN numbers
             THEN <<Panicked>>
             ELSE Backrefs(name, numbers[name][2])
                  \o <<IF f.k = "EndFootnoteDefinition" THEN HtmlLiEnd ELSE HtmlParagraphEnd>>
                  \o RenderFootnote(numbers, fl, i + 1, name, TRUE)
        ELSE IF f.k = "EndFootnoteDefinition"
        THEN <<HtmlLiEnd>> \o RenderFootnote(numbers, fl, i + 1, name, has_written_backrefs)
        ELSE IF f.k = "FootnoteReference"
        THEN <<Panicked>>
        ELSE <<f>> \o RenderFootnote(numbers, fl, i + 1, name, has_written_backrefs)

\* footnotes.into_iter().flat_map(..)
RECURSIVE RenderAll(_, _)
RenderAll(numbers, fs) ==
    IF fs = <<>> THEN <<>>
    ELSE RenderFootnote(numbers, fs[1], 1, "", FALSE) \o RenderAll(numbers, Tail(fs))

\* the block `if !footnotes.is_empty() { .. }`: what it appends to output
FootnoteList(numbers, fs) ==
    IF fs # <<>>
    THEN LET kept(f) == Retained(numbers, f)
             sorted == SortByCachedKey(numbers, SelectSeq(fs, kept))
         IN  <<HtmlListOpen>> \o RenderAll(numbers, sorted) \o <<HtmlListClose>>
    ELSE <<>>

\* meta.unwrap_or(infered_meta)
ResolveMeta(found, inferred) == IF found = None THEN inferred ELSE found[1]

\* DocumentTemplate::render: the fields the template prints
Render(m, markdown) ==
    [lang |-> IF m.lang = None THEN "en-US" ELSE m.lang[1],
     title |-> m.title,
     desc |-> m.desc,
     markdown |-> markdown]

HasPanicked(html) == \E i \in 1..Len(html) : html[i] = Panicked

\* the stream has ended: lines 514-629
Finish ==
    /\ pc = "run"
    /\ ctx = <<>>
    /\ LET list == FootnoteList(footnote_numbers, footnotes)
           m == ResolveMeta(meta, infered_meta)
       IN  /\ output' = output \o list
           /\ IF HasPanicked(list)
              THEN pc' = "panic" /\ ret' = ret
              ELSE pc' = "done" /\ ret' = Some([html |-> Render(m, output'), meta |-> m])
    /\ UNCHANGED <<md, ctx, infered_meta, state, code, meta, syntax, footnotes,
                   in_footnote, footnote_numbers>>
    /\ UNCHANGED srv_vars

Next ==
    \/ OnFootnoteDefinitionStart
    \/ OnFootnoteDefinitionEnd
    \/ OnFootnoteReference
    \/ OnEventInFootnote
    \/ OnFencedCodeBlockStart
    \/ OnText
    \/ OnCodeBlockEnd
    \/ OnOtherEvent
    \/ Finish

Spec == Init /\ [][Next]_vars

(***************************************************************************)
(* The document and the rendered output, as the properties read them.      *)
(***************************************************************************)
Last(seq) == seq[Len(seq)]

RECURSIVE Concat(_)
Concat(texts) == IF texts = <<>> THEN <<>> ELSE texts[1] \o Concat(Tail(texts))

\* the names of the footnote-reference events of the document, in order
RefNames(evs) ==
    LET isRef(e) == e.k = "FootnoteReference"
        refs == SelectSeq(evs, isRef)
    IN  [i \in 1..Len(refs) |-> refs[i].name]

RECURSIVE Dedupe(_)
Dedupe(seq) ==
    IF seq = <<>> THEN <<>>
    ELSE LET d == Dedupe(Pop(seq))
         IN  IF \E i \in 1..Len(d) : d[i] = Last(seq) THEN d ELSE Append(d, Last(seq))

\* the names in the order of their first reference
FirstRefs(evs) == Dedupe(RefNames(evs))

\* the position of a name in that order, 0 for a name never referenced
NumberOf(evs, name) ==
    LET first == FirstRefs(evs)
    IN  IF \E i \in 1..Len(first) : first[i] = name
        THEN CHOOSE i \in 1..Len(first) : first[i] = name
        ELSE 0

RefCount(evs, name) == Cardinality({i \in 1..Len(evs) : evs[i] = FootnoteReference(name)})

DefCount(evs, name) == Cardinality({i \in 1..Len(evs) : evs[i] = StartFootnoteDefinition(name)})

\* the texts of the text events that follow position i - 1 without a gap
RECURSIVE TextsFrom(_, _)
TextsFrom(evs, i) ==
    IF i > Len(evs) \/ evs[i].k # "Text" THEN <<>>
    ELSE <<evs[i].text>> \o TextsFrom(evs, i + 1)

\* the positions of the start events of the blocks tagged meta
MetaBlocks(evs) == {i \in 1..Len(evs) : evs[i] = StartFenced("meta")}

\* the body of the block that starts at i: its text events, concatenated
BodyOf(evs, i) == Concat(TextsFrom(evs, i + 1))

WellFormedMetaBlocks(evs) == {i \in MetaBlocks(evs) : FromStr(BodyOf(evs, i)) # None}

\* the names of the entries of the footnote list, in order
LiNames(out) ==
    LET isLi(t) == t.k = "HtmlLi"
        lis == SelectSeq(out, isLi)
    IN  [i \in 1..Len(lis) |-> lis[i].name]

LiPositions(out) == {i \in 1..Len(out) : out[i].k = "HtmlLi"}

\* the backlinks of the entry that starts at p
BacklinksOf(out, p) ==
    LET after == {q \in LiPositions(out) : q > p}
        stop == IF after = {} THEN Len(out)
                ELSE (CHOOSE q \in after : \A r \in after : q <= r) - 1
        isBackref(t) == t.k = "HtmlBackref"
    IN  SelectSeq(SubSeq(out, p, stop), isBackref)

HasListMarkup(out) == \E i \in 1..Len(out) : out[i] \in {HtmlListOpen, HtmlListClose}

(***************************************************************************)
(* The claims.                                                             *)
(***************************************************************************)
\* C1 - Metadata override: once mdtodoc has returned for a document that
\* holds a well-formed meta block (a fenced block tagged meta whose body,
\* the concatenation of its text events, is a valid Meta record), the
\* metadata returned is the parsed content of such a block, wherever the
\* block stands and however its body is split into text events.
MetadataOverride ==
    (pc = "done" /\ WellFormedMetaBlocks(md) # {}) =>
        ret[1].meta \in {FromStr(BodyOf(md, i))[1] : i \in WellFormedMetaBlocks(md)}

\* C2 - Metadata fallback: compilation never aborts, and once mdtodoc has
\* returned for a document in which no meta block parses (there is none, or
\* the body of none is a valid Meta record), the metadata returned is the
\* inferred metadata passed in.
MetadataFallback ==
    /\ pc # "panic"
    /\ (pc = "done" /\ WellFormedMetaBlocks(md) = {}) => ret[1].meta = infered_meta

\* the HTML tokens written or buffered so far
AllTokens ==
    LET flat(bufs) == Concat(bufs)
    IN  output \o flat(footnotes) \o flat(in_footnote)

\* C3 - Footnote numbering order: the number of a name is its position in
\* the order of first reference (the table and every reference link carry
\* it), and the entries of the rendered footnote list stand in ascending
\* number, whatever the order of the definitions.
FootnoteNumberingOrder ==
    /\ \A name \in DOMAIN footnote_numbers :
           footnote_numbers[name][1] = NumberOf(md, name)
    /\ LET tokens == AllTokens
       IN  \A i \in 1..Len(tokens) :
               tokens[i].k = "HtmlReference" => tokens[i].n = NumberOf(md, tokens[i].name)
    /\ pc = "done" =>
           LET lis == LiNames(output)
           IN  \A i, j \in 1..Len(lis) :
                   i < j => /\ NumberOf(md, lis[i]) >= 1
                            /\ NumberOf(md, lis[i]) <= NumberOf(md, lis[j])

\* references in the order b, a, the definition of a before that of b: b is
\* 1, a is 2, and the list shows b before a
FootnoteNumberingOrderWitness ==
    /\ pc = "done"
    /\ RefNames(md) = <<"b", "a">>
    /\ LET isDef(e) == e.k = "StartFootnoteDefinition"
           defs == SelectSeq(md, isDef)
       IN  Len(defs) = 2 /\ defs[1].name = "a" /\ defs[2].name = "b"
    /\ footnote_numbers["b"][1] = 1
    /\ footnote_numbers["a"][1] = 2
    /\ LiNames(output) = <<"b", "a">>

\* the backlinks the code writes for a footnote referenced n times: one per
\* usage, the first a bare arrow, the others labelled with the usage index
ExpectedBacklinks(name, n) ==
    [k \in 1..n |-> HtmlBackref(name, k, IF k = 1 THEN 0 ELSE k)]

\* C4 (as stated) - Backlink count: a rendered footnote referenced n > 1
\* times carries exactly n backlinks, each labelled with its usage index
\* (1, 2, .., n), and a footnote referenced once carries one bare backlink.
BacklinkCountAllNumbered ==
    pc = "done" =>
        \A p \in LiPositions(output) :
            LET name == output[p].name
                n == RefCount(md, name)
                links == BacklinksOf(output, p)
            IN  /\ Len(links) = n
                /\ n = 1 => links[1].n = 0
                /\ n > 1 => \A k \in 1..n : links[k].nr = k /\ links[k].n = k

\* C4 (amended) - Backlink count: a rendered footnote referenced n times
\* carries exactly n backlinks, the k-th targeting the k-th reference; the
\* first is a bare arrow and the k-th, k >= 2, is labelled k (3 references
\* give the arrows labelled -, 2, 3; one reference gives one bare arrow).
BacklinkCount ==
    pc = "done" =>
        \A p \in LiPositions(output) :
            BacklinksOf(output, p)
                = ExpectedBacklinks(output[p].name, RefCount(md, output[p].name))

\* a rendered footnote that was referenced three times
BacklinkCountWitness ==
    /\ pc = "done"
    /\ \E p \in LiPositions(output) :
           /\ RefCount(md, output[p].name) = 3
           /\ Len(BacklinksOf(output, p)) = 3
           /\ BacklinksOf(output, p)[3].n = 3

\* C5 - Meta block invisibility: no text event of a block tagged meta is ever
\* written to the output, neither in the body nor in the footnote list.
MetaBlockInvisibility ==
    \A i \in 1..Len(output) : ~(output[i].k = "Text" /\ output[i].text \in CodeTexts)

\* the entries of the list that carry the name
LiCount(out, name) == Cardinality({p \in LiPositions(out) : out[p].name = name})

\* C6 - Unused footnote suppression: a name never referenced in the stream
\* has no entry in the rendered list, and every definition of a referenced
\* name has its entry.
UnusedFootnoteSuppression ==
    pc = "done" =>
        \A name \in Names :
            LiCount(output, name)
                = IF RefCount(md, name) = 0 THEN 0 ELSE DefCount(md, name)

\* a document that defines a name it never references, beside a footnote
\* that is referenced and rendered
UnusedFootnoteSuppressionWitness ==
    /\ pc = "done"
    /\ \E unused, used \in Names :
           /\ DefCount(md, unused) > 0 /\ RefCount(md, unused) = 0
           /\ DefCount(md, used) > 0 /\ RefCount(md, used) = 1
           /\ LiNames(output) = <<used>>

\* C7 - The footnote list markup (the rule and the list wrapper) is in the
\* output only when the list has an entry.
FootnoteListOnlyWhenNonEmpty ==
    pc = "done" => (HasListMarkup(output) <=> LiNames(output) # <<>>)

\* C8 - mdtodoc is total on well-formed streams: no unwrap fails (the
\* footnote stack holds one buffer per open definition, so the pop at a
\* definition end finds one; every rendered footnote has its entry in the
\* numbering table), and at the return a value (html, metadata) is there.
MdtodocTotal ==
    /\ pc # "panic"
    /\ Len(in_footnote) = Cardinality({i \in 1..Len(ctx) : ctx[i] = "FootnoteDefinition"})
    /\ (pc = "run" /\ ctx = <<>>) =>
           ~HasPanicked(FootnoteList(footnote_numbers, footnotes))
    /\ pc = "done" =>
           /\ ret # None
           /\ ret[1].html.markdown = output
           /\ \A p \in LiPositions(output) : output[p].name \in DOMAIN footnote_numbers

\* a document with a definition nested in another, one of them unused, has
\* been compiled and a footnote rendered
MdtodocTotalWitness ==
    /\ pc = "done"
    /\ \E i \in 1..(Len(md) - 1) :
           md[i].k = "StartFootnoteDefinition" /\ md[i + 1].k = "StartFootnoteDefinition"
    /\ \E name \in Names : DefCount(md, name) > 0 /\ RefCount(md, name) = 0
    /\ LiNames(output) # <<>>

\* C9 - Dangling reference: a reference to a name without a definition gets
\* the next number and a counted usage and is written as the link
\* HtmlReference(name, number, usage); at the return the name has its entry
\* in the numbering table, no entry in the list, and nothing has failed.
DanglingReference ==
    /\ pc # "panic"
    /\ (pc = "run" /\ md # <<>> /\ Last(md).k = "FootnoteReference"
            /\ DefCount(md, Last(md).name) = 0) =>
           LET name == Last(md).name
               link == HtmlReference(name, NumberOf(md, name), RefCount(md, name))
           IN  /\ footnote_numbers[name] = <<NumberOf(md, name), RefCount(md, name)>>
               /\ IF in_footnote = <<>>
                  THEN Last(output) = link
                  ELSE Last(Top(in_footnote)) = link
    /\ pc = "done" =>
           \A name \in Names :
               (RefCount(md, name) > 0 /\ DefCount(md, name) = 0) =>
                   /\ name \in DOMAIN footnote_numbers
                   /\ footnote_numbers[name] = <<NumberOf(md, name), RefCount(md, name)>>
                   /\ LiCount(output, name) = 0
                   /\ ret # None

\* a name referenced twice and never defined is number 2, its second link is
\* in the body, and the footnote of the other name is rendered
DanglingReferenceWitness ==
    /\ pc = "done"
    /\ \E name \in Names :
           /\ DefCount(md, name) = 0
           /\ \E i \in 1..Len(output) : output[i] = HtmlReference(name, 2, 2)
           /\ LiNames(output) # <<>>
           /\ LiCount(output, name) = 0

\* the position of the start event of the last code block of the stream
LastBlock(evs) ==
    LET starts == {i \in 1..Len(evs) :
                      evs[i].k \in {"StartCodeBlockFenced", "StartCodeBlockIndented"}}
    IN  CHOOSE i \in starts : \A j \in starts : j <= i

\* C10 - Front-matter buffering: when a meta block of the main body has
\* ended, the metadata is the parse of the concatenation of the block's text
\* events: a body that arrives as several text events is parsed as one
\* record.
FrontMatterBuffering ==
    (/\ pc = "run" /\ md # <<>> /\ Last(md) = EndCodeBlock /\ ctx = <<>>
     /\ md[LastBlock(md)] = StartFenced("meta")
     /\ FromStr(BodyOf(md, LastBlock(md))) # None) =>
        meta = FromStr(BodyOf(md, LastBlock(md)))

\* C11 - One entry per name: the rendered footnote list holds at most one
\* entry for a footnote name, so the anchors fn-<name> of the entries are
\* pairwise different, also when a name is defined more than once.
OneEntryPerName ==
    pc = "done" => \A name \in Names : LiCount(output, name) <= 1

\* the tokens that only the footnote list holds
IsListToken(t) ==
    t.k \in {"HtmlListOpen", "HtmlListClose", "HtmlLi", "HtmlLiEnd", "HtmlParagraphEnd",
             "HtmlBackref"}

IsPrefix(short, long) == Len(short) <= Len(long) /\ SubSeq(long, 1, Len(short)) = short

\* C12 - Deferred emission: a step that consumes an event while a footnote
\* definition is open, or that opens or closes one, writes nothing to the
\* output; the event (for a reference, its link) goes to the end of the
\* buffer on top of the stack: a start event opens that buffer, an end event
\* closes it and the buffer is collected.  The list is written after the
\* whole body: the output holds no list token while the stream is consumed,
\* and the return only appends to it.
DeferredEmission ==
    /\ [](pc = "run" => \A i \in 1..Len(output) : ~IsListToken(output[i]))
    /\ [][(pc = "run" /\ pc' # "run") => IsPrefix(output, output')]_vars
    /\ [][(md' # md /\ (in_footnote # <<>> \/ in_footnote' # <<>>)) =>
            /\ output' = output
            /\ LET ev == Last(md')
               IN  IF ev.k = "StartFootnoteDefinition"
                   THEN in_footnote' = Append(in_footnote, <<ev>>)
                   ELSE IF ev.k = "EndFootnoteDefinition"
                   THEN /\ in_footnote' = Pop(in_footnote)
                        /\ footnotes' = Append(footnotes, Append(Top(in_footnote), ev))
                   ELSE IF ev.k = "FootnoteReference"
                   THEN /\ Pop(in_footnote') = Pop(in_footnote)
                        /\ Pop(Top(in_footnote')) = Top(in_footnote)
                        /\ Last(Top(in_footnote')).k = "HtmlReference"
                   ELSE in_footnote' = PushLast(in_footnote, ev)]_vars

\* the definition stands first in the source and holds a paragraph; the
\* body that follows it is written first, the list with the definition after
DeferredEmissionWitness ==
    /\ pc = "done"
    /\ Len(md) >= 2
    /\ md[1].k = "StartFootnoteDefinition"
    /\ md[2] = StartParagraph
    /\ Len(output) >= 2
    /\ output[1] = StartParagraph
    /\ \E i \in 2..(Len(output) - 1) : output[i] = HtmlListOpen /\ output[i + 1].k = "HtmlLi"

\* the entry of the footnote list that starts at p, up to its closing tag
EntryAt(out, p) ==
    LET ends == {q \in p..Len(out) : out[q] = HtmlLiEnd}
    IN  SubSeq(out, p, CHOOSE q \in ends : \A r \in ends : q <= r)

\* the entry of a collected definition with its backlinks in the place the
\* claim gives them
PlacedEntry(fl) ==
    LET name == fl[1].name
        links == ExpectedBacklinks(name, RefCount(md, name))
        len == Len(fl)
    IN  IF fl[len - 1] = EndParagraph
        THEN <<HtmlLi(name)>> \o SubSeq(fl, 2, len - 2) \o links
             \o <<HtmlParagraphEnd, HtmlLiEnd>>
        ELSE <<HtmlLi(name)>> \o SubSeq(fl, 2, len - 1) \o links \o <<HtmlLiEnd>>

\* C13 - Backlink placement: every entry of the rendered list is the content
\* of a collected definition with one run of backlinks, written once: before
\* the closing tag of the final paragraph when the second-to-last collected
\* event is a paragraph end, and otherwise after the last block of the
\* definition, before the closing </li>.
BacklinkPlacement ==
    pc = "done" =>
        \A p \in LiPositions(output) :
            \E j \in 1..Len(footnotes) :
                /\ RefCount(md, footnotes[j][1].name) > 0
                /\ EntryAt(output, p) = PlacedEntry(footnotes[j])

\* one list with both placements: the entry of a closes its paragraph after
\* the backlinks, the entry of b holds no paragraph and ends on the backlink
BacklinkPlacementWitness ==
    /\ pc = "done"
    /\ LiNames(output) = <<"a", "b">>
    /\ \E p, q \in LiPositions(output) :
        /\ p < q
        /\ Len(EntryAt(output, p)) >= 3
        /\ EntryAt(output, p)[Len(EntryAt(output, p)) - 1] = HtmlParagraphEnd
        /\ EntryAt(output, p)[Len(EntryAt(output, p)) - 2].k = "HtmlBackref"
        /\ EntryAt(output, q) = <<HtmlLi("b"), HtmlBackref("b", 1, 0), HtmlLiEnd>>

\* C14 - Reference inside a definition body: right after a reference event
\* consumed with a definition open, the table holds for its name the number
\* of the name in the order of first reference and the count of its
\* references so far, the link with that number and count is the last element
\* of the buffer on top of the stack, and the body holds no such link.
ReferenceInsideDefinition ==
    (pc = "run" /\ md # <<>> /\ Last(md).k = "FootnoteReference" /\ in_footnote # <<>>) =>
        LET name == Last(md).name
            link == HtmlReference(name, NumberOf(md, name), RefCount(md, name))
        IN  /\ name \in DOMAIN footnote_numbers
            /\ footnote_numbers[name] = <<NumberOf(md, name), RefCount(md, name)>>
            /\ Top(in_footnote) # <<>>
            /\ Last(Top(in_footnote)) = link
            /\ \A i \in 1..Len(output) : output[i] # link

\* the second reference of b stands in the definition of a, after a first
\* reference of a in the body: the buffered link carries number 2, usage 2
ReferenceInsideDefinitionWitness ==
    /\ pc = "run"
    /\ md # <<>>
    /\ Last(md) = FootnoteReference("b")
    /\ in_footnote # <<>>
    /\ Last(Top(in_footnote)) = HtmlReference("b", 2, 2)
    /\ \E i \in 1..Len(output) : output[i] = HtmlReference("b", 2, 1)

\* C15 - Parser state: the state is one of Normal, Meta, Highlight; it leaves
\* Normal only on a fenced code-block start consumed with the footnote stack
\* empty, stays as it is until the next code-block end and is Normal after
\* that one; a text event in Meta or Highlight state is captured (nothing is
\* written), a text event in Normal state changes neither the metadata nor
\* the code buffer and is passed on as it is (to the output, or inside a
\* footnote definition to the open buffer); the metadata and the code buffer
\* change in no other state; when every block of the stream is closed the
\* state is Normal, the code buffer empty and the footnote stack empty.
ParserState ==
    /\ [](state \in {"Normal", "Meta", "Highlight"})
    /\ [](ctx = <<>> => state = "Normal" /\ code = <<>> /\ in_footnote = <<>>)
    /\ [][(state = "Normal" /\ state' # "Normal") =>
            md' # md /\ Last(md').k = "StartCodeBlockFenced" /\ in_footnote = <<>>]_vars
    /\ [][(state # "Normal" /\ md' # md) =>
            state' = (IF Last(md').k = "EndCodeBlock" THEN "Normal" ELSE state)]_vars
    /\ [][(md' # md /\ Last(md').k = "Text") =>
            IF state = "Normal"
            THEN /\ meta' = meta /\ code' = code
                 /\ IF in_footnote = <<>>
                    THEN output' = Append(output, Last(md')) /\ in_footnote' = in_footnote
                    ELSE in_footnote' = PushLast(in_footnote, Last(md')) /\ output' = output
            ELSE output' = output /\ in_footnote' = in_footnote]_vars
    /\ [][(meta' # meta) => state = "Meta" /\ Last(md').k = "Text"]_vars
    /\ [][(code' # code) =>
            /\ state = "Highlight"
            /\ \/ Last(md').k = "Text" /\ code' = code \o Last(md').text
               \/ Last(md').k = "EndCodeBlock" /\ code' = <<>>]_vars

\* a stream with a meta block and a highlighted block has been consumed:
\* the metadata was captured, the code was captured and given back
ParserStateWitness ==
    /\ pc = "run"
    /\ ctx = <<>>
    /\ state = "Normal"
    /\ meta # None
    /\ \E i \in 1..Len(output) : output[i].k = "HtmlHighlighted" /\ output[i].text # <<>>

\* the number of footnote definitions open before event i
DepthAt(evs, i) ==
    Cardinality({j \in 1..(i - 1) : evs[j].k = "StartFootnoteDefinition"})
    - Cardinality({j \in 1..(i - 1) : evs[j].k = "EndFootnoteDefinition"})

\* the start positions of the fenced blocks of the main body that are not
\* tagged meta and have ended
HighlightedBlocks(evs) ==
    {i \in 1..Len(evs) :
        /\ evs[i].k = "StartCodeBlockFenced"
        /\ ~IsMetaTag(evs[i].name)
        /\ DepthAt(evs, i) = 0
        /\ \E j \in (i + 1)..Len(evs) : evs[j] = EndCodeBlock}

\* the elements of a set of numbers in ascending order
RECURSIVE Ascending(_)
Ascending(S) ==
    IF S = {} THEN <<>>
    ELSE LET least == CHOOSE x \in S : \A y \in S : x <= y
         IN  <<least>> \o Ascending(S \ {least})

IsHighlightHtml(t) == t.k \in {"HtmlHighlighted", "HtmlUnhighlighted"}

\* C16 - Highlighting of a fenced block: while the stream is consumed the
\* raw-HTML events of highlighted code in the output are, one for one and in
\* order, the ended fenced blocks of the main body not tagged meta, each made
\* from the concatenation of the text events of its own block and from the
\* syntax of its tag; the event is the last one written when the block has
\* just ended; no fenced start and no text of such a block is in the output.
FencedBlockHighlighting ==
    pc = "run" =>
        LET blocks == Ascending(HighlightedBlocks(md))
            htmls == SelectSeq(output, IsHighlightHtml)
        IN  /\ Len(htmls) = Len(blocks)
            /\ \A k \in 1..Len(blocks) :
                htmls[k] \in HighlightedHtml(BodyOf(md, blocks[k]), FindSyntax(md[blocks[k]].name))
            /\ \A i \in 1..Len(output) :
                output[i].k # "StartCodeBlockFenced" /\ output[i] # Text(CodeLine)
            /\ (/\ md # <<>>
                /\ Last(md) = EndCodeBlock
                /\ LastBlock(md) \in HighlightedBlocks(md))
               => (output # <<>> /\ Last(output) = htmls[Len(htmls)])

\* two highlighted blocks: the first arrived as two text events, the second
\* as one, and the output holds their two different codes in that order
FencedBlockHighlightingWitness ==
    /\ pc = "run"
    /\ Cardinality(HighlightedBlocks(md)) = 2
    /\ LET htmls == SelectSeq(output, IsHighlightHtml)
       IN  /\ Len(htmls) = 2
           /\ htmls[1].text = CodeLine \o Prose
           /\ htmls[2].text = Prose

\* C17 - Code blocks and footnote buffers are mutually exclusive: whenever
\* the footnote stack is not empty the state is Normal and the code buffer
\* empty, and a fenced code-block start consumed with the stack not empty is
\* the last element of the buffer on top of the stack, as it arrived.
CaptureExcludesFootnote ==
    in_footnote # <<>> =>
        /\ state = "Normal"
        /\ code = <<>>
        /\ (pc = "run" /\ md # <<>> /\ Last(md).k = "StartCodeBlockFenced")
           => (Top(in_footnote) # <<>> /\ Last(Top(in_footnote)) = Last(md))

\* a whole meta block with a valid record has gone by inside a definition:
\* its three events are the end of the open buffer and nothing was captured
CaptureExcludesFootnoteWitness ==
    /\ pc = "run"
    /\ in_footnote # <<>>
    /\ Len(Top(in_footnote)) >= 4
    /\ LET buf == Top(in_footnote)
       IN  SubSeq(buf, Len(buf) - 2, Len(buf))
               = <<StartFenced("meta"), Text(FullRecord), EndCodeBlock>>
    /\ state = "Normal"
    /\ meta = None

\* the start of the code block that the code-block end at j closes
BlockStartOf(evs, j) ==
    LET starts == {i \in 1..(j - 1) :
                      evs[i].k \in {"StartCodeBlockFenced", "StartCodeBlockIndented"}}
    IN  CHOOSE i \in starts : \A r \in starts : r <= i

BaselineKinds == {"StartParagraph", "EndParagraph", "StartCodeBlockIndented"}

\* the positions of the events of the main body that no rule of the closure
\* matches, and of the ends of the indented code blocks of the main body
BaselinePositions(evs) ==
    {i \in 1..Len(evs) :
        /\ DepthAt(evs, i) = 0
        /\ \/ evs[i].k \in BaselineKinds
           \/ evs[i] = EndCodeBlock /\ evs[BlockStartOf(evs, i)] = StartIndented}

IsBaselineEvent(t) == t.k \in BaselineKinds \/ t = EndCodeBlock

\* C18 - Baseline passthrough: while the stream is consumed, the events of
\* the kinds no rule matches and the code-block ends found in the output are
\* exactly those of the main body (for a code-block end: those that close an
\* indented block), each as it arrived and in the order of arrival.
BaselinePassthrough ==
    pc = "run" =>
        LET at == Ascending(BaselinePositions(md))
        IN  SelectSeq(output, IsBaselineEvent) = [k \in 1..Len(at) |-> md[at[k]]]

\* an indented code block and a paragraph of the main body were forwarded,
\* in that order, and a paragraph of an open definition was not
BaselinePassthroughWitness ==
    /\ pc = "run"
    /\ SelectSeq(output, IsBaselineEvent)
           = <<StartIndented, EndCodeBlock, StartParagraph, EndParagraph>>
    /\ in_footnote # <<>>
    /\ Last(Top(in_footnote)) = StartParagraph

IsReferenceHtml(t) == t.k = "HtmlReference"

\* the reference links among tokens, as pairs of name and usage index: the
\* id fr-<name>-<nr> of a link is made of these two, and two different pairs
\* give two different ids (the usage index is the digits after the last dash)
ReferenceIds(tokens) ==
    LET links == SelectSeq(tokens, IsReferenceHtml)
    IN  [i \in 1..Len(links) |-> <<links[i].name, links[i].nr>>]

IsInjective(seq) == \A i, j \in 1..Len(seq) : seq[i] = seq[j] => i = j

\* C19 - Reference ids: the link made for the k-th reference event of a name
\* has usage index k and the number of the name; the links made so far for a
\* name have the usage indexes 1 .. (count of its references), each once,
\* and no two links of the returned document share name and usage index; the
\* backlinks of a rendered entry target the usage indexes 1 .. (usage count
\* of its name), in that order.
ReferenceIdsUnique ==
    /\ pc = "run" =>
        /\ LET links == SelectSeq(AllTokens, IsReferenceHtml)
               ids == ReferenceIds(links)
           IN  /\ IsInjective(ids)
               /\ \A name \in Names :
                   {ids[i][2] : i \in {j \in 1..Len(ids) : ids[j][1] = name}}
                       = 1..RefCount(md, name)
               /\ \A i \in 1..Len(links) : links[i].n = NumberOf(md, links[i].name)
        /\ (md # <<>> /\ Last(md).k = "FootnoteReference") =>
            LET name == Last(md).name
                link == HtmlReference(name, NumberOf(md, name), RefCount(md, name))
            IN  IF in_footnote = <<>>
                THEN output # <<>> /\ Last(output) = link
                ELSE Last(Top(in_footnote)) = link
    /\ pc = "done" =>
        /\ IsInjective(ReferenceIds(output))
        /\ \A p \in LiPositions(output) :
            LET links == BacklinksOf(output, p)
            IN  /\ Len(links) = RefCount(md, output[p].name)
                /\ \A k \in 1..Len(links) : links[k].name = output[p].name /\ links[k].nr = k

\* a is referenced first inside its own definition and then in the body: the
\* body link has usage index 2 and is written before the link of the
\* definition, which has usage index 1; the entry has the backlinks 1 and 2
ReferenceIdsUniqueWitness ==
    /\ pc = "done"
    /\ ReferenceIds(output) = <<<<"a", 2>>, <<"a", 1>>>>
    /\ \E p \in LiPositions(output) : Len(BacklinksOf(output, p)) = 2

\* C20 - No dangling backlink: every backlink of the rendered footnote list
\* targets a reference link that is in the returned document, in the body or
\* in a rendered footnote, also when a reference stands inside a definition
\* that is dropped as unused.
NoDanglingBacklink ==
    pc = "done" =>
        \A i \in 1..Len(output) :
            output[i].k = "HtmlBackref"
                => <<output[i].name, output[i].nr>>
                       \in {ReferenceIds(output)[j] : j \in 1..Len(ReferenceIds(output))}

\* C21 - List position matches the label: the entry at position k of the
\* rendered footnote list (counted from 1) is the entry of the name whose
\* number is k, so a reference link shows the position of the entry it points
\* to, also when a referenced name has no definition or is first referenced
\* inside another definition.
ListPositionMatchesLabel ==
    pc = "done" =>
        \A k \in 1..Len(LiNames(output)) : NumberOf(md, LiNames(output)[k]) = k

(***************************************************************************)
(* The server: main (lines 54-105), SrvState::load and SrvState::serve      *)
(* (lines 160-233), generate_index (lines 241-300).  mdtodoc is total, so   *)
(* its calls are values here: the index page and the page of a note.       *)
(***************************************************************************)
\* the content paths a configuration file can yield; "." is the default, the
\* one load_config returns for a missing or invalid file
Paths == {".", "q"}

\* what is at a content path: a directory without notes, one with the note
\* n, one with the note n made unreadable
DirStates == {"empty", "note", "locked"}

Ok(x) == [ok |-> TRUE, val |-> x]

Err == [ok |-> FALSE, val |-> <<>>]

IndexedDocument(rel_path) == [title |-> rel_path, created |-> "d0", rel_path |-> rel_path]

\* walk with the callback of generate_index: read_dir, fs::metadata,
\* File::open and read_to_string pass their errors up with `?`
generate_index(dir) ==
    IF dir = "locked" THEN Err
    ELSE IF dir = "note" THEN Ok(<<IndexedDocument("n")>>)
    ELSE Ok(<<>>)

\* mdtodoc(&generate_index_html(&index), Meta {title: "Index", ..}).0
IndexDocument(index) == [k |-> "Index", path |-> "", items |-> index]

\* mdtodoc(&data, Meta::inferred(..)).0 for the note read at data_path
NoteDocument(content_path, rel_path) ==
    [k |-> "Note", path |-> content_path, items |-> <<rel_path>>]

\* SrvState::load
Load(d, content_path) ==
    LET index == generate_index(d[content_path])
    IN  IF ~index.ok THEN Err
        ELSE Ok([content_path |-> content_path,
                 index |-> index.val,
                 index_html |-> IndexDocument(index.val)])

Rq(url, method) == [url |-> url, method |-> method]

\* "%" stands for a url that uri::percent_decode rejects
Requests ==
    {Rq("/", "Get"), Rq("/", "Post"), Rq("/note/n", "Get"), Rq("/note/z", "Get"),
     Rq("%", "Get")}

\* path.strip_prefix("/note/")
NoteOf(url) == IF url = "/note/n" THEN Some("n") ELSE IF url = "/note/z" THEN Some("z") ELSE None

Response(status, body) == [status |-> status, body |-> body]

\* a panic unwinds the thread, or aborts the process when the build says so
PanicOutcomes == {"unwind", "abort"}

\* the process is there: main has neither returned nor been aborted
Running == main_pc \notin {"exit", "aborted"}

MdtodocAtRest ==
    /\ md = <<>>
    /\ ctx = <<>>
    /\ infered_meta = Inferred("X", "d0")
    /\ state = "Normal"
    /\ code = <<>>
    /\ meta = None
    /\ syntax = "Plain Text"
    /\ footnotes = <<>>
    /\ in_footnote = <<>>
    /\ footnote_numbers = <<>>
    /\ output = <<>>
    /\ pc = "rest"
    /\ ret = None

\* main up to the spawn of the serve thread: the first load has succeeded
SrvInit ==
    /\ MdtodocAtRest
    /\ config_file = "."
    /\ config = "."
    /\ disk \in {d \in [Paths -> DirStates] : Load(d, ".").ok}
    /\ srv_state = Load(disk, ".").val
    /\ reload_state = FALSE
    /\ lock_owner = "none"
    /\ poisoned = FALSE
    /\ main_pc = "config"
    /\ serve_pc = "recv"
    /\ request = None
    /\ found_entry = None
    /\ response = None
    /\ log = None

\* ---- the main thread: the loop of lines 87-104 ----
\* config = load_config(&config_path)
LoadConfig ==
    /\ main_pc = "config"
    /\ config' = config_file
    /\ main_pc' = "swap"
    /\ UNCHANGED <<reload_state, srv_state, lock_owner, poisoned, serve_pc, request,
                   found_entry, response, log, config_file, disk>>
    /\ UNCHANGED vars

\* reload_state.swap(false, ..); without a signal: the sleep, then the loop
SwapReloadState ==
    /\ main_pc = "swap"
    /\ reload_state' = FALSE
    /\ main_pc' = IF reload_state THEN "lock" ELSE "config"
    /\ UNCHANGED <<config, srv_state, lock_owner, poisoned, serve_pc, request,
                   found_entry, response, log, config_file, disk>>
    /\ UNCHANGED vars

\* let Ok(mut state) = state.lock() else { break }: a poisoned mutex ends
\* the loop, main returns and the process with it
MainLock ==
    /\ main_pc = "lock"
    /\ lock_owner = "none"
    /\ IF poisoned
       THEN main_pc' = "exit" /\ lock_owner' = lock_owner
       ELSE main_pc' = "load" /\ lock_owner' = "main"
    /\ UNCHANGED <<reload_state, config, srv_state, poisoned, serve_pc, request,
                   found_entry, response, log, config_file, disk>>
    /\ UNCHANGED vars

\* Reload putting the default state in place when the load fails
ReloadClearing ==
    /\ main_pc = "load"
    /\ LET loaded == Load(disk, config)
       IN  IF loaded.ok
           THEN srv_state' = loaded.val /\ log' = Some("State reloaded sucessfully!")
           ELSE srv_state' = SrvStateDefault /\ log' = Some("Failed to reload state")
    /\ lock_owner' = "none"
    /\ main_pc' = "config"
    /\ UNCHANGED <<reload_state, config, poisoned, serve_pc, request,
                   found_entry, response, config_file, disk>>
    /\ UNCHANGED vars

\* match SrvState::load(config.content_path), then the guard goes out of
\* scope, the sleep, the loop
Reload ==
    /\ main_pc = "load"
    /\ LET loaded == Load(disk, config)
       IN  IF loaded.ok
           THEN srv_state' = loaded.val /\ log' = Some("State reloaded sucessfully!")
           ELSE srv_state' = srv_state /\ log' = Some("Failed to reload state")
    /\ lock_owner' = "none"
    /\ main_pc' = "config"
    /\ UNCHANGED <<reload_state, config, poisoned, serve_pc, request,
                   found_entry, response, config_file, disk>>
    /\ UNCHANGED vars

\* ---- the serve thread: the loop of lines 182-232 ----
\* server.recv() hands over the request a client has sent
Recv ==
    /\ Running
    /\ serve_pc = "recv"
    /\ \E rq \in Requests : request' = Some(rq)
    /\ serve_pc' = "lock"
    /\ UNCHANGED <<reload_state, config, srv_state, lock_owner, poisoned, main_pc,
                   found_entry, response, log, config_file, disk>>
    /\ UNCHANGED vars

\* server.recv() fails: the error is logged and the loop left
RecvError ==
    /\ Running
    /\ serve_pc = "recv"
    /\ serve_pc' = "ended"
    /\ UNCHANGED <<reload_state, config, srv_state, lock_owner, poisoned, main_pc,
                   request, found_entry, response, log, config_file, disk>>
    /\ UNCHANGED vars

\* state.lock().unwrap()
ServeLock ==
    /\ Running
    /\ serve_pc = "lock"
    /\ lock_owner = "none"
    /\ IF poisoned
       THEN serve_pc' = "panicked" /\ lock_owner' = lock_owner
       ELSE serve_pc' = "route" /\ lock_owner' = "serve"
    /\ UNCHANGED <<reload_state, config, srv_state, poisoned, main_pc, request,
                   found_entry, response, log, config_file, disk>>
    /\ UNCHANGED vars

\* respond_or_log, then the guard is dropped and the loop goes on
Respond(resp) ==
    /\ response' = Some(resp)
    /\ lock_owner' = "none"
    /\ serve_pc' = "recv"
    /\ request' = None
    /\ found_entry' = None

\* percent_decode and the match on (path, method), up to the look-up of the
\* index entry of a note
Route ==
    /\ Running
    /\ serve_pc = "route"
    /\ LET rq == request[1]
           hits == {i \in 1..Len(srv_state.index) :
                       Some(srv_state.index[i].rel_path) = NoteOf(rq.url)}
       IN  IF rq.url = "%"
           THEN Respond(Response(400, <<>>))
           ELSE IF rq.url = "/" /\ rq.method = "Get"
           THEN Respond(Response(200, srv_state.index_html))
           ELSE IF NoteOf(rq.url) # None /\ hits # {}
           THEN /\ found_entry' = Some(srv_state.index[CHOOSE i \in hits : \A j \in hits : i <= j])
                /\ serve_pc' = "read"
                /\ UNCHANGED <<response, lock_owner, request>>
           ELSE Respond(Response(404, <<>>))
    /\ UNCHANGED <<reload_state, config, srv_state, poisoned, main_pc, log, config_file, disk>>
    /\ UNCHANGED vars

\* std::fs::read_to_string(&data_path).unwrap(), mdtodoc and the response;
\* the panic of the unwrap drops the guard while unwinding: the mutex is
\* poisoned
ReadNote ==
    /\ Running
    /\ serve_pc = "read"
    /\ IF disk[srv_state.content_path] = "note"
       THEN /\ Respond(Response(200, NoteDocument(srv_state.content_path,
                                                  found_entry[1].rel_path)))
            /\ UNCHANGED <<poisoned, main_pc>>
       ELSE /\ serve_pc' = "panicked"
            /\ lock_owner' = "none"
            /\ \E outcome \in PanicOutcomes :
                IF outcome = "unwind"
                THEN poisoned' = TRUE /\ main_pc' = main_pc
                ELSE poisoned' = poisoned /\ main_pc' = "aborted"
            /\ UNCHANGED <<response, request, found_entry>>
    /\ UNCHANGED <<reload_state, config, srv_state, log, config_file, disk>>
    /\ UNCHANGED vars

\* ---- the environment ----
\* SIGHUP: signal_hook sets the flag
Sighup ==
    /\ Running
    /\ ~reload_state
    /\ reload_state' = TRUE
    /\ UNCHANGED <<config, srv_state, lock_owner, poisoned, main_pc, serve_pc, request,
                   found_entry, response, log, config_file, disk>>
    /\ UNCHANGED vars

\* the configuration file is edited
EditConfig ==
    /\ \E p \in Paths \ {config_file} : config_file' = p
    /\ UNCHANGED <<reload_state, config, srv_state, lock_owner, poisoned, main_pc, serve_pc,
                   request, found_entry, response, log, disk>>
    /\ UNCHANGED vars

\* a content directory changes
EditDisk ==
    /\ \E p \in Paths : \E d \in DirStates \ {disk[p]} : disk' = [disk EXCEPT ![p] = d]
    /\ UNCHANGED <<reload_state, config, srv_state, lock_owner, poisoned, main_pc, serve_pc,
                   request, found_entry, response, log, config_file>>
    /\ UNCHANGED vars

SrvNext ==
    \/ LoadConfig
    \/ SwapReloadState
    \/ MainLock
    \/ Reload
    \/ Recv
    \/ RecvError
    \/ ServeLock
    \/ Route
    \/ ReadNote
    \/ Sighup
    \/ EditConfig
    \/ EditDisk

SrvSpec == SrvInit /\ [][SrvNext]_srv_vars

\* C22 - Failed reload keeps the previous state: the step of a reload whose
\* SrvState::load fails leaves the shared state as it was, the step of one
\* that succeeds puts the loaded state in place, all three fields from the
\* one load, and nothing else changes the shared state; it does not change
\* while a request is handled, the entry looked up for a note is an entry of
\* the index in place, and the answers to "/" and to a note are made from
\* the index page and the content path in place.
FailedReloadKeepsState ==
    /\ [](srv_state.index_html = IndexDocument(srv_state.index))
    /\ [](serve_pc = "read" =>
            \E i \in 1..Len(srv_state.index) : srv_state.index[i] = found_entry[1])
    /\ [][(main_pc = "load" /\ main_pc' # "load") =>
            srv_state' = (IF Load(disk, config).ok THEN Load(disk, config).val
                          ELSE srv_state)]_srv_vars
    /\ [][(srv_state' # srv_state) => (main_pc = "load" /\ Load(disk, config).ok)]_srv_vars
    /\ [][(serve_pc \in {"route", "read"}) => srv_state' = srv_state]_srv_vars
    /\ [][(serve_pc = "route" /\ serve_pc' = "recv" /\ request = Some(Rq("/", "Get"))) =>
            response' = Some(Response(200, srv_state.index_html))]_srv_vars
    /\ [][(serve_pc = "read" /\ serve_pc' = "recv") =>
            response' = Some(Response(200, NoteDocument(srv_state.content_path,
                                                        found_entry[1].rel_path)))]_srv_vars

\* the last reload has failed (the configured directory cannot be indexed)
\* and the request for "/" taken up after it is about to be answered from
\* the state of the other directory, which is still in place
FailedReloadKeepsStateWitness ==
    /\ log = Some("Failed to reload state")
    /\ serve_pc = "route"
    /\ request = Some(Rq("/", "Get"))
    /\ srv_state.content_path # config
    /\ srv_state.index # <<>>

\* C23 - The server survives an unreadable note: whatever was requested,
\* the serve thread has not died of a panic, so it takes up the later
\* requests, and the reload loop of main has not stopped, so a later SIGHUP
\* is followed by a reload attempt.
ServerSurvivesUnreadableNote ==
    /\ serve_pc # "panicked"
    /\ main_pc \notin {"exit", "aborted"}

====
